---- MODULE Spec2Model ----
(***************************************************************************)
(* Model of the snake game core: src/src/snake.rs (Direction, Block,       *)
(* Snake) and src/src/game.rs (Game).  The game is a single mutable Game   *)
(* value driven by a host loop that calls key_pressed and update.          *)
(*                                                                         *)
(* Time: waiting_time and delta_time are f64 in the source.  The model     *)
(* counts time in tenths of a time unit with exact arithmetic, so          *)
(* MOVING_PERIOD (0.1) is 1 and RESTART_TIME (1.0) is 10.                  *)
(*                                                                         *)
(* Option<T>: None is the empty sequence, Some(v) the one-element          *)
(* sequence <<v>>.                                                         *)
(***************************************************************************)
EXTENDS Integers, Sequences, FiniteSets, TLC

VARIABLES
    game,       \* the Game value (game.rs:16-28), its snake included
    panicked,   \* TRUE once a handler hit the unwrap of an absent tail (snake.rs:94)
    last,       \* the most recent call of the host: its name and argument
    calls       \* how many calls the host has made

vars == <<game, panicked, last, calls>>

----------------------------------------------------------------------------
\* Bounds of the model

\* Number of calls (key_pressed, update) the host makes in one run.
MaxCalls == 7

\* Number of calls the host makes in a run of the loop that waits for the
\* restart (SpecLive), not counting those made while the game is over.
MaxLiveCalls == 4

\* Number of calls the host makes in a run that follows add_food sample by
\* sample (SpecFood).
MaxFoodCalls == 5

\* Board sizes given to Game::new(width, height).
Boards == {<<8, 6>>, <<10, 10>>}

\* delta_time values given to update, in tenths of a time unit.
DeltaTimes == {1, 5, 6}

\* Key codes given to key_pressed: the four arrows and one other key.
Keys == {"Up", "Down", "Left", "Right", "Space"}

----------------------------------------------------------------------------
\* Program constants (tenths of a time unit)

MOVING_PERIOD == 1
RESTART_TIME == 10

----------------------------------------------------------------------------
\* Option

None == <<>>
Some(v) == <<v>>
unwrap_or(opt, default) == IF opt = None THEN default ELSE opt[1]

----------------------------------------------------------------------------
\* snake.rs

Direction == {"Up", "Down", "Left", "Right"}

opposite(d) ==
    CASE d = "Up" -> "Down"
      [] d = "Down" -> "Up"
      [] d = "Left" -> "Right"
      [] d = "Right" -> "Left"

Block(bx, by) == [x |-> bx, y |-> by]

\* LinkedList operations used by the snake
push_back(list, b) == Append(list, b)
push_front(list, b) == <<b>> \o list
pop_back_rest(list) == IF list = <<>> THEN <<>> ELSE SubSeq(list, 1, Len(list) - 1)
pop_back_value(list) == IF list = <<>> THEN None ELSE Some(list[Len(list)])

Snake_new(sx, sy) ==
    [direction |-> "Right",
     body |-> push_back(push_back(push_back(<<>>, Block(sx + 2, sy)),
                                  Block(sx + 1, sy)),
                        Block(sx, sy)),
     tail |-> None]

head_position(s) ==
    IF s.body # <<>> THEN <<s.body[1].x, s.body[1].y>> ELSE <<2, 2>>

has_head_at(s, hx, hy) ==
    IF s.body # <<>> THEN hx = s.body[1].x /\ hy = s.body[1].y ELSE FALSE

next_head_coords(s, dir) ==
    LET head == head_position(s)
        d == unwrap_or(dir, s.direction)
    IN  CASE d = "Up" -> <<head[1], head[2] - 1>>
          [] d = "Down" -> <<head[1], head[2] + 1>>
          [] d = "Left" -> <<head[1] - 1, head[2]>>
          [] d = "Right" -> <<head[1] + 1, head[2]>>

\* Mutant of move_forward: the new head not pushed after the pop
move_forward_no_push(s, dir) ==
    [s EXCEPT !.tail = pop_back_value(s.body),
              !.body = pop_back_rest(s.body)]

\* Mutant of move_forward: the direction given stored as the heading
move_forward_sets_direction(s, dir) ==
    LET new == next_head_coords(s, dir)
    IN  [s EXCEPT !.direction = unwrap_or(dir, s.direction),
                  !.tail = pop_back_value(s.body),
                  !.body = push_front(pop_back_rest(s.body), Block(new[1], new[2]))]

\* Mutant of move_forward: the removed cell not saved as the tail
move_forward_no_tail(s, dir) ==
    LET new == next_head_coords(s, dir)
    IN  [s EXCEPT !.body = push_front(pop_back_rest(s.body), Block(new[1], new[2]))]

\* Mutant of move_forward: the pop of the last cell left out
move_forward_no_pop(s, dir) ==
    LET new == next_head_coords(s, dir)
    IN  [s EXCEPT !.tail = pop_back_value(s.body),
                  !.body = push_front(s.body, Block(new[1], new[2]))]

move_forward(s, dir) ==
    LET new == next_head_coords(s, dir)
    IN  [s EXCEPT !.tail = pop_back_value(s.body),
                  !.body = push_front(pop_back_rest(s.body), Block(new[1], new[2]))]

\* grow unwraps the saved tail: with no saved tail the program panics
grow_panics(s) == s.tail = None

\* Mutant of grow: the saved tail pushed at the front instead of the back
grow_at_front(s) ==
    IF grow_panics(s) THEN s
    ELSE [s EXCEPT !.body = push_front(s.body, s.tail[1])]

grow(s) ==
    IF grow_panics(s) THEN s
    ELSE [s EXCEPT !.body = push_back(s.body, s.tail[1])]

is_crawling_over(s, cx, cy) ==
    \A i \in 1..Len(s.body) : cx = s.body[i].x /\ cy = s.body[i].y

----------------------------------------------------------------------------
\* game.rs

Game_new(w, h) ==
    [snake |-> Snake_new(2, 2),
     waiting_time |-> 0,
     food_exists |-> TRUE,
     food_x |-> 6,
     food_y |-> 4,
     width |-> w,
     height |-> h,
     game_over |-> FALSE]

\* Mutant of key_direction: the Left and Right arms exchanged
key_direction_swapped(key) ==
    CASE key = "Left" -> Some("Right")
      [] key = "Right" -> Some("Left")
      [] key \in {"Up", "Down"} -> Some(key)
      [] OTHER -> None

\* key_pressed's match of the key to an optional direction
key_direction(key) ==
    IF key \in Direction THEN Some(key) ELSE None

check_eating_hits(g) ==
    g.food_exists /\ has_head_at(g.snake, g.food_x, g.food_y)

\* Mutant of check_eating: food_exists not cleared after the snake grew
check_eating_keeps_food(g) ==
    IF check_eating_hits(g)
    THEN [g EXCEPT !.snake = grow(g.snake)]
    ELSE g

check_eating(g) ==
    IF check_eating_hits(g)
    THEN [g EXCEPT !.snake = grow(g.snake), !.food_exists = FALSE]
    ELSE g

\* Line 105 calls next_head_coords with no direction: the dir parameter of
\* is_snake_alive is never used, and the candidate cell is the one in the
\* stored heading.
is_snake_alive(g, dir) ==
    LET next == next_head_coords(g.snake, None)
    IN  IF is_crawling_over(g.snake, next[1], next[2])
        THEN FALSE
        ELSE 0 < next[1] /\ next[1] < g.width - 1 /\
             0 < next[2] /\ next[2] < g.height - 1

\* Mutant of Candidates: the ranges written 0..width and 0..height
Candidates_whole_board(g) == (0..(g.width - 1)) \X (0..(g.height - 1))

\* The values rng.gen_range(1..width-1), rng.gen_range(1..height-1) can give
Candidates(g) == (1..(g.width - 2)) \X (1..(g.height - 2))

\* Mutant of add_food_accepts: the test of the candidate inverted
add_food_accepts_crawled(g, c) ==
    is_crawling_over(g.snake, c[1], c[2])

\* add_food keeps a candidate that is not crawled over and calls itself again
\* otherwise
add_food_accepts(g, c) ==
    ~is_crawling_over(g.snake, c[1], c[2])

\* Mutant of add_food: food_exists not set after the coordinates are stored
add_food_no_flag(g) ==
    { [g EXCEPT !.food_x = c[1], !.food_y = c[2]] :
        c \in { cc \in Candidates(g) : ~is_crawling_over(g.snake, cc[1], cc[2]) } }

\* add_food retries until the candidate is not crawled over: the games it can
\* return, one per accepted candidate
add_food(g) ==
    { [g EXCEPT !.food_x = c[1], !.food_y = c[2], !.food_exists = TRUE] :
        c \in { cc \in Candidates(g) : ~is_crawling_over(g.snake, cc[1], cc[2]) } }

\* Mutant of update_snake: waiting_time reset only when the snake moved
update_snake_reset_on_move(g, dir) ==
    IF is_snake_alive(g, dir)
    THEN [check_eating([g EXCEPT !.snake = move_forward(g.snake, dir)])
            EXCEPT !.waiting_time = 0]
    ELSE [g EXCEPT !.game_over = TRUE]

update_snake(g, dir) ==
    LET g1 == IF is_snake_alive(g, dir)
              THEN check_eating([g EXCEPT !.snake = move_forward(g.snake, dir)])
              ELSE [g EXCEPT !.game_over = TRUE]
    IN  [g1 EXCEPT !.waiting_time = 0]

update_snake_panics(g, dir) ==
    /\ is_snake_alive(g, dir)
    /\ LET g1 == [g EXCEPT !.snake = move_forward(g.snake, dir)]
       IN  check_eating_hits(g1) /\ grow_panics(g1.snake)

\* Mutant of restart: waiting_time not reset
restart_keeps_time(g) ==
    add_food([g EXCEPT !.snake = Snake_new(2, 2),
                       !.game_over = FALSE])

restart(g) ==
    add_food([g EXCEPT !.snake = Snake_new(2, 2),
                       !.waiting_time = 0,
                       !.game_over = FALSE])

\* Mutant of key_pressed: the early return on game_over left out
key_pressed_unguarded(g, key) ==
    update_snake(g, key_direction(key))

key_pressed(g, key) ==
    IF g.game_over THEN g ELSE update_snake(g, key_direction(key))

key_pressed_panics(g, key) ==
    ~g.game_over /\ update_snake_panics(g, key_direction(key))

\* Mutant of update: the moving-period test written >= instead of >
update_moving_ge(g, dt) ==
    LET g1 == [g EXCEPT !.waiting_time = g.waiting_time + dt]
    IN  IF g1.game_over
        THEN IF g1.waiting_time > RESTART_TIME THEN restart(g1) ELSE {g1}
        ELSE LET fed == IF ~g1.food_exists THEN add_food(g1) ELSE {g1}
             IN  { IF g2.waiting_time >= MOVING_PERIOD
                   THEN update_snake(g2, None) ELSE g2 : g2 \in fed }

\* Mutant of update: the restart test written >= instead of >
update_restart_ge(g, dt) ==
    LET g1 == [g EXCEPT !.waiting_time = g.waiting_time + dt]
    IN  IF g1.game_over
        THEN IF g1.waiting_time >= RESTART_TIME THEN restart(g1) ELSE {g1}
        ELSE LET fed == IF ~g1.food_exists THEN add_food(g1) ELSE {g1}
             IN  { IF g2.waiting_time > MOVING_PERIOD
                   THEN update_snake(g2, None) ELSE g2 : g2 \in fed }

\* update: the games one call can return (the food candidate is random)
update(g, dt) ==
    LET g1 == [g EXCEPT !.waiting_time = g.waiting_time + dt]
    IN  IF g1.game_over
        THEN IF g1.waiting_time > RESTART_TIME THEN restart(g1) ELSE {g1}
        ELSE LET fed == IF ~g1.food_exists THEN add_food(g1) ELSE {g1}
             IN  { IF g2.waiting_time > MOVING_PERIOD
                   THEN update_snake(g2, None) ELSE g2 : g2 \in fed }

update_panics(g, dt, result) ==
    /\ ~g.game_over
    /\ g.waiting_time + dt > MOVING_PERIOD
    /\ \E g2 \in (IF ~g.food_exists
                  THEN add_food([g EXCEPT !.waiting_time = g.waiting_time + dt])
                  ELSE {[g EXCEPT !.waiting_time = g.waiting_time + dt]}) :
          update_snake(g2, None) = result /\ update_snake_panics(g2, None)

----------------------------------------------------------------------------
\* The host loop

Init ==
    /\ \E b \in Boards : game = Game_new(b[1], b[2])
    /\ panicked = FALSE
    /\ last = [op |-> "new", key |-> "", dt |-> 0]
    /\ calls = 0

KeyPressed(key) ==
    /\ ~panicked
    /\ calls < MaxCalls
    /\ calls' = calls + 1
    /\ game' = key_pressed(game, key)
    /\ panicked' = key_pressed_panics(game, key)
    /\ last' = [op |-> "key_pressed", key |-> key, dt |-> 0]

Update(dt) ==
    /\ ~panicked
    /\ calls < MaxCalls
    /\ calls' = calls + 1
    /\ \E g2 \in update(game, dt) :
          /\ game' = g2
          /\ panicked' = update_panics(game, dt, g2)
    /\ last' = [op |-> "update", key |-> "", dt |-> dt]

Next ==
    \/ \E key \in Keys : KeyPressed(key)
    \/ \E dt \in DeltaTimes : Update(dt)

Spec == Init /\ [][Next]_vars

----------------------------------------------------------------------------
\* The host loop that does not stop while the game is over: the host makes
\* MaxLiveCalls calls, and past them it keeps calling key_pressed and update for
\* as long as game_over is true; update keeps being called (once per frame).

KeyPressedLive(key) ==
    /\ ~panicked
    /\ calls < MaxLiveCalls \/ game.game_over
    /\ calls' = IF calls < MaxLiveCalls THEN calls + 1 ELSE calls
    /\ game' = key_pressed(game, key)
    /\ panicked' = key_pressed_panics(game, key)
    /\ last' = [op |-> "key_pressed", key |-> key, dt |-> 0]

UpdateLive(dt) ==
    /\ ~panicked
    /\ calls < MaxLiveCalls \/ game.game_over
    /\ calls' = IF calls < MaxLiveCalls THEN calls + 1 ELSE calls
    /\ \E g2 \in update(game, dt) :
          /\ game' = g2
          /\ panicked' = update_panics(game, dt, g2)
    /\ last' = [op |-> "update", key |-> "", dt |-> dt]

NextLive ==
    \/ \E key \in Keys : KeyPressedLive(key)
    \/ \E dt \in DeltaTimes : UpdateLive(dt)

SpecLive ==
    /\ Init
    /\ [][NextLive]_vars
    /\ WF_vars(\E dt \in DeltaTimes : UpdateLive(dt))

----------------------------------------------------------------------------
\* The host loop with add_food followed sample by sample.  While add_food runs,
\* last.op names the caller it will return to: "update:add_food" (update while
\* playing without food) or "restart:add_food" (update restarting the game).

InAddFood == last.op \in {"update:add_food", "restart:add_food"}

\* update(dt) is about to call add_food
CallsAddFood(g, dt) ==
    \/ g.game_over /\ g.waiting_time + dt > RESTART_TIME
    \/ ~g.game_over /\ ~g.food_exists

KeyPressedFood(key) ==
    /\ ~InAddFood
    /\ calls < MaxFoodCalls
    /\ KeyPressed(key)

\* update calls that do not reach add_food
UpdateFood(dt) ==
    /\ ~InAddFood
    /\ calls < MaxFoodCalls
    /\ ~CallsAddFood(game, dt)
    /\ Update(dt)

\* update up to its call of add_food: the time is added and, in the restart,
\* the snake, waiting_time and game_over are reset
UpdateCallsAddFood(dt) ==
    /\ ~panicked
    /\ ~InAddFood
    /\ calls < MaxFoodCalls
    /\ CallsAddFood(game, dt)
    /\ calls' = calls + 1
    /\ game' = IF game.game_over
               THEN [game EXCEPT !.snake = Snake_new(2, 2),
                                 !.waiting_time = 0,
                                 !.game_over = FALSE]
               ELSE [game EXCEPT !.waiting_time = game.waiting_time + dt]
    /\ last' = [op |-> IF game.game_over THEN "restart:add_food"
                       ELSE "update:add_food",
                key |-> "", dt |-> dt]
    /\ UNCHANGED panicked

\* One run of add_food's body with candidate c: a rejected candidate makes the
\* recursive call, which starts from the same game; an accepted one is stored
\* and add_food returns, to restart (which returns) or to update (which goes on
\* to its periodic advance)
AddFoodSample ==
    /\ InAddFood
    /\ \E c \in Candidates(game) :
         IF add_food_accepts(game, c)
         THEN LET g2 == [game EXCEPT !.food_x = c[1], !.food_y = c[2],
                                     !.food_exists = TRUE]
                  advance == /\ last.op = "update:add_food"
                             /\ g2.waiting_time > MOVING_PERIOD
              IN  /\ game' = IF advance THEN update_snake(g2, None) ELSE g2
                  /\ panicked' = (advance /\ update_snake_panics(g2, None))
                  /\ last' = [last EXCEPT !.op = "update"]
         ELSE UNCHANGED <<game, panicked, last>>
    /\ UNCHANGED calls

NextFood ==
    \/ \E key \in Keys : KeyPressedFood(key)
    \/ \E dt \in DeltaTimes : UpdateFood(dt)
    \/ \E dt \in DeltaTimes : UpdateCallsAddFood(dt)
    \/ AddFoodSample

\* The sampler is fair: a candidate that add_food accepts is eventually drawn
SpecFood ==
    /\ Init
    /\ [][NextFood]_vars
    /\ WF_vars(AddFoodSample)

----------------------------------------------------------------------------
\* Vocabulary of the properties

\* One cell in direction d, as a coordinate offset (y grows downwards)
Offset(d) ==
    CASE d = "Up" -> <<0, -1>>
      [] d = "Down" -> <<0, 1>>
      [] d = "Left" -> <<-1, 0>>
      [] d = "Right" -> <<1, 0>>

HeadOf(g) == <<g.snake.body[1].x, g.snake.body[1].y>>
BodyLen(g) == Len(g.snake.body)
FoodCell(g) == <<g.food_x, g.food_y>>
FreshSnake ==
    [direction |-> "Right",
     body |-> <<Block(4, 2), Block(3, 2), Block(2, 2)>>,
     tail |-> None]

\* The step just taken was a call of key_pressed / of update
IsKeyPressed == last'.op = "key_pressed"
IsUpdate == last'.op = "update"
\* The step just taken moved the snake (a move always changes the head)
Moved == game'.snake.body # game.snake.body

----------------------------------------------------------------------------
\* C1: once an advance has set game_over (with waiting_time 0 at that moment),
\* game_over stays true through every key_pressed and every update, and the
\* time of death only accumulates (key_pressed leaves waiting_time alone,
\* update adds its delta_time), until an update call in which the accumulated
\* waiting_time strictly exceeds RESTART_TIME; no other call clears game_over.
C1_GameOverUntilRestartDelay ==
    [][ /\ (~game.game_over /\ game'.game_over) => game'.waiting_time = 0
        /\ game.game_over =>
             IF IsUpdate /\ game.waiting_time + last'.dt > RESTART_TIME
             THEN TRUE
             ELSE /\ game'.game_over
                  /\ game'.waiting_time =
                       game.waiting_time + (IF IsUpdate THEN last'.dt ELSE 0)
      ]_vars

\* C1 witness: the game is over, time has accumulated up to exactly the restart
\* delay, a key was then pressed, and the game is still over.
C1_Witness ==
    /\ game.game_over
    /\ game.waiting_time = RESTART_TIME
    /\ last.op = "key_pressed"

\* C2: an advance attempt (key_pressed with an arrow, or the periodic advance of
\* update) sets game_over exactly when the next head cell, computed with the
\* direction override (the stored heading when absent), is on or outside the
\* border or is crawled over; then the body is unchanged; otherwise the snake
\* moves to that cell and game_over stays false.
C2_AdvanceDiesExactlyOnInvalidNext ==
    [][ \A dir \in {None} \cup {Some(d) : d \in Direction} :
          ( /\ ~game.game_over
            /\ \/ IsKeyPressed /\ last'.key \in Direction /\ dir = Some(last'.key)
               \/ IsUpdate /\ game.waiting_time + last'.dt > MOVING_PERIOD
                           /\ dir = None )
          => LET d == IF dir = None THEN game.snake.direction ELSE dir[1]
                 nx == HeadOf(game)[1] + Offset(d)[1]
                 ny == HeadOf(game)[2] + Offset(d)[2]
                 invalid == \/ nx <= 0 \/ nx >= game.width - 1
                            \/ ny <= 0 \/ ny >= game.height - 1
                            \/ is_crawling_over(game.snake, nx, ny)
             IN  IF invalid
                 THEN game'.game_over /\ game'.snake.body = game.snake.body
                 ELSE ~game'.game_over /\ HeadOf(game') = <<nx, ny>>
      ]_vars

\* C3: key_pressed(Left) on a freshly constructed game moves the head from (4,2)
\* to (3,2); and whenever key_pressed with an arrow d moves the snake, the new
\* head is the old head offset by exactly one cell in direction d.
C3_ArrowMovesHeadInItsDirection ==
    [][ /\ (IsKeyPressed /\ last.op = "new" /\ last'.key = "Left")
             => HeadOf(game) = <<4, 2>> /\ HeadOf(game') = <<3, 2>>
        /\ (IsKeyPressed /\ last'.key \in Direction /\ Moved)
             => HeadOf(game') = <<HeadOf(game)[1] + Offset(last'.key)[1],
                                  HeadOf(game)[2] + Offset(last'.key)[2]>>
      ]_vars

\* C3 witness: the first call was key_pressed(Left) and the head is at (3,2).
C3_Witness ==
    /\ calls = 1
    /\ last = [op |-> "key_pressed", key |-> "Left", dt |-> 0]
    /\ HeadOf(game) = <<3, 2>>

\* C4: key_pressed with a key that is not an arrow is ignored: snake, food
\* state, game_over and waiting_time are unchanged.
C4_OtherKeysIgnored ==
    [][ (IsKeyPressed /\ last'.key \notin Direction) => game' = game ]_vars

\* C5: key_pressed while game_over is a no-op for every key: body, saved tail,
\* food_exists, food coordinates, game_over and waiting_time are unchanged.
C5_KeyPressedNoOpWhenGameOver ==
    [][ (IsKeyPressed /\ game.game_over) =>
          /\ game'.snake.body = game.snake.body
          /\ game'.snake.tail = game.snake.tail
          /\ game'.food_exists = game.food_exists
          /\ FoodCell(game') = FoodCell(game)
          /\ game'.game_over = game.game_over
          /\ game'.waiting_time = game.waiting_time
          /\ game' = game
      ]_vars

\* C5 witness: an arrow key was pressed while the game was over and waiting.
C5_Witness ==
    /\ game.game_over
    /\ game.waiting_time > 0
    /\ last.op = "key_pressed"
    /\ last.key \in Direction

\* C6: update(dt) with game_over true restarts the game when waiting_time + dt
\* exceeds RESTART_TIME: afterwards game_over is false, the snake is the fresh
\* one (body [(4,2),(3,2),(2,2)], heading Right, no saved tail), waiting_time
\* is 0 and food exists; when waiting_time + dt does not exceed RESTART_TIME
\* only waiting_time changes (no advance, no food placement).
C6_UpdateRestartsAfterDelay ==
    [][ (IsUpdate /\ game.game_over) =>
          IF game.waiting_time + last'.dt > RESTART_TIME
          THEN /\ ~game'.game_over
               /\ game'.snake = FreshSnake
               /\ game'.waiting_time = 0
               /\ game'.food_exists
          ELSE game' = [game EXCEPT !.waiting_time = game.waiting_time + last'.dt]
      ]_vars

\* C6 witness: the game was restarted by update(0.6): a fresh snake (no saved
\* tail) after earlier calls, playing, with food and waiting_time 0.
C6_Witness ==
    /\ calls > 1
    /\ last = [op |-> "update", key |-> "", dt |-> 6]
    /\ game.snake = FreshSnake
    /\ ~game.game_over
    /\ game.food_exists
    /\ game.waiting_time = 0

\* C7 as stated: an update call that begins with food_exists false re-spawns
\* food, so the following update call cannot begin with food_exists false too.
C7_FoodAbsentAtMostOneTick ==
    [][ (IsUpdate /\ ~game.food_exists) => game'.food_exists ]_vars

\* C7 amended: while playing, an update call that begins with food_exists false
\* places food on an interior cell before any periodic advance, and food_exists
\* is true afterwards unless the periodic advance of the same call moved the
\* head onto the new food and ate it; while game_over, update places no food
\* until the restart delay elapses, and the restart places food.
C7_FoodRespawnedWhilePlaying ==
    [][ (IsUpdate /\ ~game.food_exists) =>
          IF ~game.game_over
          THEN /\ game'.food_x \in 1..(game.width - 2)
               /\ game'.food_y \in 1..(game.height - 2)
               /\ \/ game'.food_exists
                  \/ /\ game.waiting_time + last'.dt > MOVING_PERIOD
                     /\ Moved
                     /\ HeadOf(game') = FoodCell(game')
                     /\ BodyLen(game') = BodyLen(game) + 1
          ELSE IF game.waiting_time + last'.dt > RESTART_TIME
               THEN game'.food_exists
               ELSE ~game'.food_exists /\ FoodCell(game') = FoodCell(game)
      ]_vars

\* C7 witness: the initial food was eaten by the fourth call (the body has four
\* cells), and the fifth call, an update that advanced nothing, put food back.
C7_Witness ==
    /\ calls = 5
    /\ last = [op |-> "update", key |-> "", dt |-> 1]
    /\ BodyLen(game) = 4
    /\ game.waiting_time = 1
    /\ game.food_exists

\* C8: after an advance that moved the snake: if food existed at the advance and
\* the new head is on the food cell, the body is one cell longer and food_exists
\* is false; otherwise body length, food_exists and the food cell are unchanged.
\* (In update the advance follows the food placement, so the food it sees
\* exists and lies where the call leaves it.)
C8_EatingGrowsAndClearsFood ==
    [][ /\ (IsKeyPressed /\ Moved) =>
             IF game.food_exists /\ HeadOf(game') = FoodCell(game)
             THEN BodyLen(game') = BodyLen(game) + 1 /\ ~game'.food_exists
             ELSE /\ BodyLen(game') = BodyLen(game)
                  /\ game'.food_exists = game.food_exists
                  /\ FoodCell(game') = FoodCell(game)
        /\ (IsUpdate /\ ~game.game_over /\ Moved) =>
             IF HeadOf(game') = FoodCell(game')
             THEN BodyLen(game') = BodyLen(game) + 1 /\ ~game'.food_exists
             ELSE /\ BodyLen(game') = BodyLen(game)
                  /\ game'.food_exists
                  /\ game.food_exists => FoodCell(game') = FoodCell(game)
      ]_vars

\* C8 witness: in Game::new(10,10) the head has reached the food at (6,4): the
\* body has four cells and food_exists is false.
C8_Witness ==
    /\ game.width = 10 /\ game.height = 10
    /\ HeadOf(game) = <<6, 4>>
    /\ FoodCell(game) = <<6, 4>>
    /\ BodyLen(game) = 4
    /\ ~game.food_exists

\* C9: move_forward(dir) preserves the body length for every reachable snake and
\* every dir: the new body is the cell next_head_coords(dir) followed by the old
\* body without its last cell, and the saved tail is the removed last cell;
\* Snake::new(2,2) has body [(4,2),(3,2),(2,2)] and move_forward(None) on it
\* yields [(5,2),(4,2),(3,2)].
C9_MoveForwardShiftsBody ==
    /\ \A dir \in {None} \cup {Some(d) : d \in Direction} :
         LET s == game.snake
             n == Len(s.body)
             d == IF dir = None THEN s.direction ELSE dir[1]
             s2 == move_forward(s, dir)
         IN  /\ Len(s2.body) = n
             /\ HeadOf([snake |-> s2]) = next_head_coords(s, dir)
             /\ s2.body[1] = Block(s.body[1].x + Offset(d)[1],
                                   s.body[1].y + Offset(d)[2])
             /\ \A i \in 2..n : s2.body[i] = s.body[i - 1]
             /\ s2.tail = Some(s.body[n])
             /\ s2.direction = s.direction
    /\ Snake_new(2, 2).body = <<Block(4, 2), Block(3, 2), Block(2, 2)>>
    /\ move_forward(Snake_new(2, 2), None).body
         = <<Block(5, 2), Block(4, 2), Block(3, 2)>>

\* C9 witness: the first call was the periodic advance, move_forward(None) on
\* the snake of Snake::new(2,2): the body is [(5,2),(4,2),(3,2)], the saved
\* tail (2,2).
C9_Witness ==
    /\ calls = 1
    /\ last.op = "update"
    /\ game.snake.body = <<Block(5, 2), Block(4, 2), Block(3, 2)>>
    /\ game.snake.tail = Some(Block(2, 2))

\* C10: grow with a saved tail makes the body exactly one cell longer, the new
\* last cell being a copy of the saved tail, and leaves the head position and
\* every earlier body cell unchanged.
C10_GrowAppendsSavedTail ==
    game.snake.tail # None =>
        LET s == game.snake
            n == Len(s.body)
            s2 == grow(s)
        IN  /\ ~grow_panics(s)
            /\ Len(s2.body) = n + 1
            /\ s2.body[n + 1] = s.tail[1]
            /\ \A i \in 1..n : s2.body[i] = s.body[i]
            /\ head_position(s2) = head_position(s)
            /\ s2.tail = s.tail

\* C10 witness: the snake has just eaten: grow has appended the saved tail, the
\* cell the move before it removed, behind the three cells of the moved body.
C10_Witness ==
    /\ BodyLen(game) = 4
    /\ ~game.food_exists
    /\ game.snake.tail # None
    /\ game.snake.body[4] = game.snake.tail[1]
    /\ HeadOf(game) = FoodCell(game)

----------------------------------------------------------------------------
\* The step just taken ran update_snake: key_pressed while playing, or update
\* while playing with the moving period exceeded
Advanced ==
    /\ ~game.game_over
    /\ \/ IsKeyPressed
       \/ IsUpdate /\ game.waiting_time + last'.dt > MOVING_PERIOD

\* C11: every call of update_snake leaves waiting_time equal to 0, whether the
\* snake moved, ate or died; and when the snake was alive (it moved), on food or
\* not, game_over remains false.
C11_AdvanceResetsWaitingTime ==
    [][ Advanced =>
          /\ game'.waiting_time = 0
          /\ Moved \/ game'.game_over
          /\ Moved => ~game'.game_over
      ]_vars

\* C11 witness: the snake has died in an advance forced by a key: game_over is
\* true and waiting_time is 0.
C11_Witness ==
    /\ game.game_over
    /\ game.waiting_time = 0
    /\ last.op = "key_pressed"

\* C12: whenever add_food completes (in update while playing without food, and
\* in the restart), the food cell it chose is an interior cell, 1 <= food_x <
\* width-1 and 1 <= food_y < height-1, is not crawled over by the snake of that
\* moment, and food_exists is true.
C12_AddFoodChoosesFreeInteriorCell ==
    LET placed(g) ==
            \A g2 \in add_food(g) :
                /\ 1 <= g2.food_x /\ g2.food_x < g2.width - 1
                /\ 1 <= g2.food_y /\ g2.food_y < g2.height - 1
                /\ ~is_crawling_over(g2.snake, g2.food_x, g2.food_y)
                /\ g2.food_exists
                /\ g2.snake = g.snake
    IN  /\ (~game.game_over /\ ~game.food_exists) => placed(game)
        /\ game.game_over => placed([game EXCEPT !.snake = Snake_new(2, 2)])

\* C12 witness: add_food has completed inside update: the initial food was
\* eaten by the fourth call, and the fifth call, update(0.5), placed new food
\* and then advanced the snake without eating it.
C12_Witness ==
    /\ calls = 5
    /\ last = [op |-> "update", key |-> "", dt |-> 5]
    /\ BodyLen(game) = 4
    /\ ~game.game_over
    /\ game.food_exists
    /\ game.food_x \in 1..(game.width - 2)
    /\ game.food_y \in 1..(game.height - 2)

\* C13: the snake body is never empty: its length is at least 3 in every state,
\* so the fallbacks of head_position and has_head_at are never taken.
C13_BodyNeverEmpty ==
    /\ game.snake.body # <<>>
    /\ BodyLen(game) >= 3

\* C13 witness: the snake has moved three times or more without eating and its
\* body still has its three cells.
C13_Witness ==
    /\ calls >= 3
    /\ BodyLen(game) = 3
    /\ game.snake.tail # None
    /\ game.snake.body[3] \notin {Block(2, 2), Block(3, 2), Block(4, 2)}

\* C16: add_food does not put food where the snake body is: after every food
\* placement (in update while playing without food, and in the restart) the
\* food cell differs from every cell of the body the snake had at the placement.
C16_FoodNeverOnBody ==
    [][ /\ (IsUpdate /\ ~game.game_over /\ ~game.food_exists) =>
             \A i \in 1..BodyLen(game) :
                 game.snake.body[i] # Block(game'.food_x, game'.food_y)
        /\ (IsUpdate /\ game.game_over /\ ~game'.game_over) =>
             \A i \in 1..Len(FreshSnake.body) :
                 FreshSnake.body[i] # Block(game'.food_x, game'.food_y)
      ]_vars

\* C17 as stated: while playing, update(dt) performs the periodic advance
\* exactly when waiting_time + dt strictly exceeds MOVING_PERIOD, and otherwise
\* leaves the snake unchanged and only accumulates waiting_time; key_pressed
\* while playing resets waiting_time to 0.
C17_UpdateOnlyAccumulatesOtherwise ==
    [][ /\ (IsUpdate /\ ~game.game_over) =>
             IF game.waiting_time + last'.dt > MOVING_PERIOD
             THEN game'.waiting_time = 0 /\ (Moved \/ game'.game_over)
             ELSE game' = [game EXCEPT !.waiting_time =
                                          game.waiting_time + last'.dt]
        /\ (IsKeyPressed /\ ~game.game_over) => game'.waiting_time = 0
      ]_vars

\* C17 amended: as stated, except that an update call that does not advance
\* also places food when food_exists was false: it leaves the snake and
\* game_over unchanged, accumulates waiting_time, and changes the food only by
\* that placement.
C17_PeriodicAdvanceExactlyPastPeriod ==
    [][ /\ (IsUpdate /\ ~game.game_over) =>
             IF game.waiting_time + last'.dt > MOVING_PERIOD
             THEN game'.waiting_time = 0 /\ (Moved \/ game'.game_over)
             ELSE /\ game'.snake = game.snake
                  /\ ~game'.game_over
                  /\ game'.waiting_time = game.waiting_time + last'.dt
                  /\ game'.waiting_time > 0
                  /\ game'.food_exists
                  /\ game.food_exists =>
                       game' = [game EXCEPT !.waiting_time =
                                               game.waiting_time + last'.dt]
        /\ (IsKeyPressed /\ ~game.game_over) => game'.waiting_time = 0
      ]_vars

\* C17 witness: after an advance, update(0.1) has only accumulated time: the
\* snake has moved once and waiting_time is 0.1, not past the moving period.
C17_Witness ==
    /\ calls = 2
    /\ last = [op |-> "update", key |-> "", dt |-> 1]
    /\ game.waiting_time = 1
    /\ ~game.game_over
    /\ game.snake.tail = Some(Block(2, 2))

\* C18: the stored heading is Right in every reachable state, so every periodic
\* advance that moves the snake moves the head by exactly (+1, 0), whatever
\* arrow keys were pressed before.
C18_HeadingStaysRight ==
    [][ /\ game.snake.direction = "Right"
        /\ game'.snake.direction = "Right"
        /\ (IsUpdate /\ ~game.game_over /\ Moved) =>
             HeadOf(game') = <<HeadOf(game)[1] + 1, HeadOf(game)[2]>>
      ]_vars

\* C18 witness: key_pressed(Up) then a periodic advance: the head went from
\* (4,2) up to (4,1) and then right to (5,1).
C18_Witness ==
    /\ calls = 2
    /\ last.op = "update"
    /\ game.snake.body = <<Block(5, 1), Block(4, 1), Block(4, 2)>>

\* C19: on a board with width >= 7 and height >= 5, in every reachable state the
\* head lies strictly inside the border: 0 < head_x < width-1 and
\* 0 < head_y < height-1.
C19_HeadInsideBorder ==
    (game.width >= 7 /\ game.height >= 5) =>
        /\ 0 < HeadOf(game)[1] /\ HeadOf(game)[1] < game.width - 1
        /\ 0 < HeadOf(game)[2] /\ HeadOf(game)[2] < game.height - 1

\* C20: grow is never executed while the saved tail is absent (the unwrap never
\* fails): a body grows only in a step that moved the snake, which saved a
\* tail, and by one cell only.
C20_GrowNeverPanics ==
    [][ /\ ~panicked /\ ~panicked'
        /\ (BodyLen(game') > BodyLen(game)) =>
             /\ BodyLen(game') = BodyLen(game) + 1
             /\ HeadOf(game') # HeadOf(game)
             /\ game'.snake.tail = Some(game.snake.body[BodyLen(game)])
             /\ game'.snake.body[BodyLen(game')] = game'.snake.tail[1]
      ]_vars

\* C20 witness: the snake has eaten twice without a panic: its body has five
\* cells.
C20_Witness ==
    /\ ~panicked
    /\ BodyLen(game) = 5
    /\ game.snake.tail # None

----------------------------------------------------------------------------
\* C15: from every game_over state, if update keeps being called (with its
\* positive delta_time), the game eventually returns to playing, whatever
\* key_pressed calls come in between; and game_over is cleared by no call other
\* than update.
C15_GameOverEventuallyRestarts ==
    /\ game.game_over ~> ~game.game_over
    /\ [][ (game.game_over /\ ~game'.game_over) => IsUpdate ]_vars

\* C15 witness: the snake died within the host's MaxLiveCalls calls, the host
\* went on calling, and an update restarted the game: playing again, fresh snake.
C15_Witness ==
    /\ calls = MaxLiveCalls
    /\ last.op = "update"
    /\ last.dt = 1
    /\ ~game.game_over
    /\ game.snake = FreshSnake
    /\ game.waiting_time = 0

----------------------------------------------------------------------------
\* The interior cells add_food can accept for the snake of game
FreeCells(g) ==
    { c \in (1..(g.width - 2)) \X (1..(g.height - 2)) :
        ~is_crawling_over(g.snake, c[1], c[2]) }

\* C14: food placement terminates: whenever add_food runs on a board with at
\* least one free interior cell, for the snake the game has reached, it returns
\* (the sampler being fair).
C14_AddFoodTerminates ==
    (InAddFood /\ FreeCells(game) # {}) ~> ~InAddFood

\* C14 witness: add_food, called by update after the snake ate the initial
\* food, has returned: food is placed and the call is over.
C14_Witness ==
    /\ calls = MaxFoodCalls
    /\ last.op = "update"
    /\ BodyLen(game) = 4
    /\ game.food_exists
    /\ FoodCell(game) # <<6, 4>>

====
